---- MODULE Spec2Model ----
(***************************************************************************)
(* A model of the two scripts of the repository:                           *)
(*   - scripts/init-dynamodb.py: the table provisioner (liveness check,    *)
(*     existence check, create), run by several independent processes      *)
(*     against one backend;                                                *)
(*   - generate_specs.py: SpecificationGenerator._write_file, the writer   *)
(*     that strips an old metadata header and prepends a fresh one.        *)
(* The two pipelines share no state; each has its own specification.       *)
(***************************************************************************)
EXTENDS Integers, Sequences, FiniteSets, TLC

VARIABLES
    tables,      \* backend: the set of table descriptions the service holds
    createCount, \* backend: how many create requests the service has applied
    pc,          \* per invocation: where main() stands
    outcome,     \* per invocation: what main() reported
    exitCode,    \* per invocation: the process exit status, -1 while running
    calls,       \* per invocation: the requests issued, with their responses
    overlap,     \* per invocation: another invocation ran during this one
    startSeq,    \* per invocation: how many invocations had started before it
    file,        \* writer: the content of the target path, or NoFile
    lastPrior,   \* writer: the content of the path before the last call
    lastBody,    \* writer: the content argument of the last call
    lastNow,     \* writer: datetime.now() of the last call
    lastResult,  \* writer: "none", "ok" or "IOFailure" for the last call
    writes,      \* writer: the number of calls made so far
    args,        \* generator: the parsed command line (--all, the document flags)
    outputDir,   \* generator: --output-dir
    dirs,        \* file system: the directories that exist
    fs,          \* file system: the file at each path
    fs0,         \* file system: fs as the process found it
    genPc,       \* generator: where main() stands
    attempted,   \* generator: the documents whose generate_* method was called
    genFailed,   \* generator: the documents whose rendering raised, with the error
    genExit,     \* generator: the process exit status, -1 while running
    genClock     \* generator: how far the wall clock has advanced

provVars == <<tables, createCount, pc, outcome, exitCode, calls, overlap, startSeq>>
writerVars == <<file, lastPrior, lastBody, lastNow, lastResult, writes>>
genVars == <<args, outputDir, dirs, fs, fs0, genPc, attempted, genFailed, genExit, genClock>>
vars == <<provVars, writerVars, genVars>>

(***************************************************************************)
(* Bounds of the model.                                                    *)
(***************************************************************************)
NumProcs == 2
MaxPriorLen == 3
MaxBodyLen == 1
MaxWrites == 2

(***************************************************************************)
(* init-dynamodb.py                                                        *)
(***************************************************************************)
Procs == 1..NumProcs

TABLE_NAME == "enterprise-data"

\* (mutant) the create request carries the partition key only.
DescriptorPartitionKeyOnly ==
    [ TableName |-> "enterprise-data",
      KeySchema |-> << [AttributeName |-> "PK", KeyType |-> "HASH"] >>,
      AttributeDefinitions |-> << [AttributeName |-> "PK", AttributeType |-> "S"] >>,
      GlobalSecondaryIndexes |-> << >>,
      BillingMode |-> "PAY_PER_REQUEST" ]

\* The fixed descriptor create_table sends in its single create request.
Descriptor ==
    [ TableName |-> TABLE_NAME,
      KeySchema |-> << [AttributeName |-> "PK", KeyType |-> "HASH"],
                       [AttributeName |-> "SK", KeyType |-> "RANGE"] >>,
      AttributeDefinitions |->
          << [AttributeName |-> "PK", AttributeType |-> "S"],
             [AttributeName |-> "SK", AttributeType |-> "S"],
             [AttributeName |-> "GSI1PK", AttributeType |-> "S"],
             [AttributeName |-> "GSI1SK", AttributeType |-> "S"] >>,
      GlobalSecondaryIndexes |->
          << [ IndexName |-> "GSI1",
               KeySchema |-> << [AttributeName |-> "GSI1PK", KeyType |-> "HASH"],
                                [AttributeName |-> "GSI1SK", KeyType |-> "RANGE"] >>,
               Projection |-> [ProjectionType |-> "ALL"],
               ProvisionedThroughput |->
                   [ReadCapacityUnits |-> 5, WriteCapacityUnits |-> 5] ] >>,
      BillingMode |-> "PAY_PER_REQUEST" ]

\* Errors of a call other than the two conditions the script names: a
\* ClientError with another code, or an exception that is no ClientError
\* (connection refused, timeout).
OtherErrors == {"OtherClientError", "OtherException"}

\* The service's answer to table.load(): found, or the "not found" condition.
DescribeTable(tbls, name) ==
    IF \E t \in tbls : t.TableName = name
    THEN "ok"
    ELSE "ResourceNotFoundException"

\* The service's answer to create_table: a name conflict is rejected and
\* leaves the table as it is; otherwise the table is added whole.
CreateTableResponse(tbls, desc) ==
    IF \E t \in tbls : t.TableName = desc.TableName
    THEN "ResourceInUseException"
    ELSE "ok"

CreateTableEffect(tbls, desc) ==
    IF \E t \in tbls : t.TableName = desc.TableName
    THEN tbls
    ELSE tbls \cup {desc}

\* (mutant) the liveness check reports the service as running whatever happens.
check_dynamodb_running_always(resp) == TRUE

\* check_dynamodb_running: True when list_tables returns, False on any exception.
check_dynamodb_running(resp) == resp = "ok"

\* (mutant) a found table is reported as absent.
table_exists_never(resp) ==
    CASE resp = "ok" -> "False"
      [] resp = "ResourceNotFoundException" -> "False"
      [] OTHER -> "raise"

\* (mutant) an absent table is reported as present.
table_exists_absent_as_found(resp) ==
    CASE resp = "ok" -> "True"
      [] resp = "ResourceNotFoundException" -> "True"
      [] OTHER -> "raise"

\* (mutant) every error of load() is swallowed as "not found".
table_exists_swallow(resp) ==
    CASE resp = "ok" -> "True"
      [] OTHER -> "False"

\* table_exists: True when load() returns, False on ResourceNotFoundException,
\* and any other error is raised again (or was never caught).
table_exists(resp) ==
    CASE resp = "ok" -> "True"
      [] resp = "ResourceNotFoundException" -> "False"
      [] OTHER -> "raise"

\* (mutant) the name conflict is not tolerated.
create_table_conflict_fails(resp) ==
    CASE resp = "ok" -> [ret |-> "True", report |-> "Created"]
      [] resp = "ResourceInUseException" -> [ret |-> "False", report |-> "CreationFailure"]
      [] resp = "OtherClientError" -> [ret |-> "False", report |-> "CreationFailure"]
      [] OTHER -> [ret |-> "raise", report |-> "UnexpectedError"]

\* (mutant) every ClientError is tolerated.
create_table_any_error_ok(resp) ==
    CASE resp = "ok" -> [ret |-> "True", report |-> "Created"]
      [] resp = "ResourceInUseException" -> [ret |-> "True", report |-> "ResourceConflict"]
      [] resp = "OtherClientError" -> [ret |-> "True", report |-> "ResourceConflict"]
      [] OTHER -> [ret |-> "raise", report |-> "UnexpectedError"]

\* create_table: True on success and on ResourceInUseException, False on any
\* other ClientError; an exception that is no ClientError is not caught.
create_table(resp) ==
    CASE resp = "ok" -> [ret |-> "True", report |-> "Created"]
      [] resp = "ResourceInUseException" -> [ret |-> "True", report |-> "ResourceConflict"]
      [] resp = "OtherClientError" -> [ret |-> "False", report |-> "CreationFailure"]
      [] OTHER -> [ret |-> "raise", report |-> "UnexpectedError"]

Running(p) == pc[p] \notin {"idle", "done"}

\* sys.exit(code) with the outcome main() printed.
Exit(p, what, code) ==
    /\ pc' = [pc EXCEPT ![p] = "done"]
    /\ outcome' = [outcome EXCEPT ![p] = what]
    /\ exitCode' = [exitCode EXCEPT ![p] = code]

Record(p, req, resp) ==
    calls' = [calls EXCEPT ![p] = Append(@, [req |-> req, resp |-> resp])]

\* An operator launches the script.
Start(p) ==
    /\ pc[p] = "idle"
    /\ pc' = [pc EXCEPT ![p] = "check_dynamodb_running"]
    /\ startSeq' = [startSeq EXCEPT ![p] = Cardinality({q \in Procs : pc[q] # "idle"})]
    /\ overlap' = [q \in Procs |->
                      IF q = p THEN \E r \in Procs : Running(r)
                      ELSE IF Running(q) THEN TRUE ELSE overlap[q]]
    /\ UNCHANGED <<tables, createCount, outcome, exitCode, calls>>
    /\ UNCHANGED <<writerVars, genVars>>

\* main(): if not check_dynamodb_running(dynamodb): sys.exit(1)
CheckRunning(p) ==
    /\ pc[p] = "check_dynamodb_running"
    /\ \E resp \in {"ok"} \cup OtherErrors :
          /\ Record(p, "list_tables", resp)
          /\ IF check_dynamodb_running(resp)
             THEN /\ pc' = [pc EXCEPT ![p] = "table_exists"]
                  /\ UNCHANGED <<outcome, exitCode>>
             ELSE Exit(p, "ServiceUnreachable", 1)
    /\ UNCHANGED <<tables, createCount, overlap, startSeq>>
    /\ UNCHANGED <<writerVars, genVars>>

\* main(): if table_exists(dynamodb, TABLE_NAME): ... else: create
TableExists(p) ==
    /\ pc[p] = "table_exists"
    /\ \E resp \in {DescribeTable(tables, TABLE_NAME)} \cup OtherErrors :
          /\ Record(p, "describe_table", resp)
          /\ CASE table_exists(resp) = "True" -> Exit(p, "AlreadyExists", 0)
               [] table_exists(resp) = "False" ->
                     /\ pc' = [pc EXCEPT ![p] = "create_table"]
                     /\ UNCHANGED <<outcome, exitCode>>
               [] OTHER -> Exit(p, "UnexpectedError", 1)
    /\ UNCHANGED <<tables, createCount, overlap, startSeq>>
    /\ UNCHANGED <<writerVars, genVars>>

\* (mutant) a create request the service refuses is issued again.
CreateTableRetry(p) ==
    /\ pc[p] = "create_table"
    /\ \E resp \in {CreateTableResponse(tables, Descriptor)} \cup OtherErrors :
          /\ tables' = IF resp = "ok" THEN CreateTableEffect(tables, Descriptor) ELSE tables
          /\ createCount' = IF tables' # tables THEN createCount + 1 ELSE createCount
          /\ Record(p, "create_table", resp)
          /\ IF create_table(resp).ret = "True"
             THEN Exit(p, create_table(resp).report, 0)
             ELSE UNCHANGED <<pc, outcome, exitCode>>
    /\ UNCHANGED <<overlap, startSeq>>
    /\ UNCHANGED <<writerVars, genVars>>

\* main(): if not create_table(dynamodb): sys.exit(1); then sys.exit(0).
\* A ClientError is the service's refusal, so nothing was applied; an
\* exception that is no ClientError (a lost response) may come after the
\* service applied the request.
CreateTable(p) ==
    /\ pc[p] = "create_table"
    /\ \E resp \in {CreateTableResponse(tables, Descriptor)} \cup OtherErrors :
       \E applied \in BOOLEAN :
          /\ applied = TRUE <=> resp \in {"ok", "OtherException"}
          /\ tables' = IF applied THEN CreateTableEffect(tables, Descriptor) ELSE tables
          /\ createCount' = IF tables' # tables THEN createCount + 1 ELSE createCount
          /\ Record(p, "create_table", resp)
          /\ LET r == create_table(resp) IN
             IF r.ret = "True" THEN Exit(p, r.report, 0) ELSE Exit(p, r.report, 1)
    /\ UNCHANGED <<overlap, startSeq>>
    /\ UNCHANGED <<writerVars, genVars>>

ProvInit ==
    /\ tables = {}
    /\ createCount = 0
    /\ pc = [p \in Procs |-> "idle"]
    /\ outcome = [p \in Procs |-> "none"]
    /\ exitCode = [p \in Procs |-> -1]
    /\ calls = [p \in Procs |-> <<>>]
    /\ overlap = [p \in Procs |-> FALSE]
    /\ startSeq = [p \in Procs |-> 0]

ProvStep(p) == CheckRunning(p) \/ TableExists(p) \/ CreateTable(p)

ProvNext == \E p \in Procs : Start(p) \/ ProvStep(p)

(***************************************************************************)
(* generate_specs.py: SpecificationGenerator._write_file                   *)
(*                                                                         *)
(* A text is a sequence of lines, each ended by its line break, as         *)
(* readlines() returns them. A line is its text without the surrounding    *)
(* whitespace (core) and the number of blanks before it (indent).          *)
(***************************************************************************)
Line(core) == [indent |-> 0, core |-> core]
Indented(core) == [indent |-> 1, core |-> core]

\* str.strip() of one line.
Strip(line) == line.core

\* str.strip() of a text: empty exactly when every line holds whitespace only.
StripIsEmpty(text) == \A i \in DOMAIN text : Strip(text[i]) = ""

\* The path: absent, or a file with its lines.
NoFile == [exists |-> FALSE, lines |-> <<>>]
FileOf(text) == [exists |-> TRUE, lines |-> text]

\* Values of datetime.now().strftime('%Y-%m-%d %H:%M:%S'), and an earlier one
\* found in files written before.
Timestamps == {"2026-01-01 10:00:00", "2026-01-01 10:00:01"}
OldTimestamp == "2025-12-31 09:00:00"

\* (mutant) the blank line that ends the metadata is left out.
MetadataNoBlank(now) ==
    << Line("---"),
       Line("Generated: " \o now),
       Line("Generator: Technical Specification Generator v1.0"),
       Line("---") >>

\* metadata = f"""---\nGenerated: ...\nGenerator: ...\n---\n\n"""
Metadata(now) ==
    << Line("---"),
       Line("Generated: " \o now),
       Line("Generator: Technical Specification Generator v1.0"),
       Line("---"),
       Line("") >>

\* lines[k] and lines[k:] with Python's indices, which start at 0.
PyAt(lines, k) == lines[k + 1]
PyFrom(lines, k) == SubSeq(lines, k + 1, Len(lines))

MinOf(S) == CHOOSE x \in S : \A y \in S : x <= y

\* (mutant) the end marker is looked for whatever line 0 is.
header_end_any_first_line(lines) ==
    IF Len(lines) > 2
    THEN LET hits == {i \in 0..(Len(lines) - 2) : Strip(PyAt(lines, i + 1)) = "---"}
         IN IF hits = {} THEN -1 ELSE MinOf(hits) + 2
    ELSE -1

\* (mutant) the end marker is looked for in the first lines only, as far as
\* a header reaches.
header_end_first_lines_only(lines) ==
    IF Len(lines) > 2 /\ Strip(PyAt(lines, 0)) = "---"
    THEN LET hits == {i \in 0..(Len(lines) - 2) :
                         i + 1 <= 4 /\ Strip(PyAt(lines, i + 1)) = "---"}
         IN IF hits = {} THEN -1 ELSE MinOf(hits) + 2
    ELSE -1

\* (mutant) a start marker without an end marker counts as a header of one
\* line.
header_end_unterminated(lines) ==
    IF Len(lines) > 2 /\ Strip(PyAt(lines, 0)) = "---"
    THEN LET hits == {i \in 0..(Len(lines) - 2) : Strip(PyAt(lines, i + 1)) = "---"}
         IN IF hits = {} THEN 1 ELSE MinOf(hits) + 2
    ELSE -1

\* header_end: -1, or the index after the first "---" line that follows a
\* "---" line 0 (for i, line in enumerate(lines[1:]): ... header_end = i + 2).
header_end(lines) ==
    IF Len(lines) > 2 /\ Strip(PyAt(lines, 0)) = "---"
    THEN LET hits == {i \in 0..(Len(lines) - 2) : Strip(PyAt(lines, i + 1)) = "---"}
         IN IF hits = {} THEN -1 ELSE MinOf(hits) + 2
    ELSE -1

\* (mutant) the content argument is written whatever the file holds.
content_to_write_always_fresh(f, content) == content

\* (mutant) what follows the old header is kept even when it is blank.
content_to_write_keep_blank(f, content) ==
    IF f.exists
    THEN LET lines == f.lines
             he == header_end(lines)
         IN IF he # -1 THEN PyFrom(lines, he) ELSE content
    ELSE content

\* The value of the variable content when the file is opened for writing.
content_to_write(f, content) ==
    IF f.exists
    THEN LET lines == f.lines
             he == header_end(lines)
         IN IF he # -1
            THEN LET content_without_header == PyFrom(lines, he)
                 IN IF ~StripIsEmpty(content_without_header)
                    THEN content_without_header
                    ELSE content
            ELSE content
    ELSE content

\* f.write(metadata + content): the file after a call that succeeds.
write_file(f, content, now) == FileOf(Metadata(now) \o content_to_write(f, content))

\* Sequences over S of length at most n.
SeqsUpTo(S, n) == UNION {[1..k -> S] : k \in 0..n}

\* The content arguments of the calls: texts without marker lines.
BodyLines == {Line("a"), Line("b"), Line("")}
Bodies == SeqsUpTo(BodyLines, MaxBodyLen)

\* What the path may hold before the first call: no file, or any short text,
\* possibly followed by a document generated earlier.
PriorLines == {Line("---"), Indented("---"), Line(""), Line("a")}
PriorTails ==
    { <<>>,
      Metadata(OldTimestamp),
      Metadata(OldTimestamp) \o <<Line("a")>>,
      Metadata(OldTimestamp) \o <<Line(""), Line("a")>>,
      <<Line("a"), Line("a"), Indented(""), Line("a"), Line("---"), Line("a")>> }
PriorFiles ==
    {NoFile} \cup {FileOf(p \o t) : p \in SeqsUpTo(PriorLines, MaxPriorLen), t \in PriorTails}

WriterIdle ==
    /\ lastPrior = NoFile
    /\ lastBody = <<>>
    /\ lastNow = ""
    /\ lastResult = "none"
    /\ writes = 0

WriterInit == file \in PriorFiles /\ WriterIdle

\* A call of _write_file(filename, content) that returns.
WriteFile ==
    /\ writes < MaxWrites
    /\ \E content \in Bodies, now \in Timestamps :
          /\ file' = write_file(file, content, now)
          /\ lastPrior' = file
          /\ lastBody' = content
          /\ lastNow' = now
    /\ lastResult' = "ok"
    /\ writes' = writes + 1
    /\ UNCHANGED <<provVars, genVars>>

\* A call that raises: open() fails and the path stays as it was, or the
\* write fails after open(filename, 'w') has truncated the file.
WriteFileFails ==
    /\ writes < MaxWrites
    /\ \E content \in Bodies, now \in Timestamps, truncated \in BOOLEAN :
          /\ file' = IF truncated THEN FileOf(<<>>) ELSE file
          /\ lastPrior' = file
          /\ lastBody' = content
          /\ lastNow' = now
    /\ lastResult' = "IOFailure"
    /\ writes' = writes + 1
    /\ UNCHANGED <<provVars, genVars>>

WriterNext == WriteFile \/ WriteFileFails

(***************************************************************************)
(* generate_specs.py: SpecificationGenerator and main                      *)
(***************************************************************************)
\* The documents, in the order generate_all calls their methods (and in
\* which main() tests their flags).
Docs ==
    << "authentication", "authorization", "monitoring", "deployment",
       "disaster_recovery", "api", "security", "performance" >>
DocSet == {Docs[i] : i \in DOMAIN Docs}

\* (mutant) every document is written to one and the same file name.
FileNameOne(d) == "authentication-requirements.md"

\* filename = self.output_dir / "<name>.md"
FileName(d) ==
    CASE d = "authentication" -> "authentication-requirements.md"
      [] d = "authorization" -> "authorization-requirements.md"
      [] d = "monitoring" -> "monitoring-requirements.md"
      [] d = "deployment" -> "deployment-architectures.md"
      [] d = "disaster_recovery" -> "disaster-recovery.md"
      [] d = "api" -> "api-specifications.md"
      [] d = "security" -> "security-requirements.md"
      [] d = "performance" -> "performance-requirements.md"

\* The documents whose content is read from specs/<name>.md.
SourceDocs == {"deployment", "disaster_recovery", "api"}

\* The string literal of a document whose content is in the script, taken
\* as one unit (its heading line).
StaticContent(d) ==
    CASE d = "authentication" -> <<Line("# Authentication Requirements")>>
      [] d = "authorization" -> <<Line("# Authorization Requirements")>>
      [] d = "monitoring" -> <<Line("# Monitoring and Observability Requirements")>>
      [] d = "security" -> <<Line("# Security Requirements")>>
      [] d = "performance" -> <<Line("# Performance Requirements")>>

\* What a source file holds before the run: a text, or a text under a header
\* a previous run wrote.
SourceText(d) == <<Line("# " \o d)>>

\* The directories: ./specs, where the sources are read, and another one.
Dirs == {"specs", "out"}
Paths == {<<dir, FileName(d)>> : dir \in Dirs, d \in DocSet}
SourcePath(d) == <<"specs", FileName(d)>>
TargetPath(dir, d) == <<dir, FileName(d)>>

\* The values datetime.now() takes, in the order of the clock.
TimestampSeq == <<"2026-01-01 10:00:00", "2026-01-01 10:00:01">>

\* The methods main() calls, in order: generate_all's, or those of the flags.
Plan(a) == IF a.all THEN Docs ELSE SelectSeq(Docs, LAMBDA d : d \in a.flags)

\* (mutant) an exception of a render is caught and the process ends normally.
exit_status_swallowed(raised) == 0

\* The exit status of the script: main() catches nothing and calls no
\* sys.exit, so the status is 1 after an uncaught exception and 0 otherwise.
exit_status(raised) == IF raised THEN 1 ELSE 0

GenExitWith(raised) ==
    /\ genPc' = "done"
    /\ genExit' = exit_status(raised)

\* generator = SpecificationGenerator(args.output_dir): mkdir(parents=True,
\* exist_ok=True).
Construct ==
    /\ genPc = "main"
    /\ dirs' = dirs \cup {outputDir}
    /\ genPc' = "generate"
    /\ UNCHANGED <<args, outputDir, fs, fs0, attempted, genFailed, genExit, genClock>>
    /\ UNCHANGED <<provVars, writerVars>>

\* mkdir raises (no permission): the exception leaves main().
ConstructFails ==
    /\ genPc = "main"
    /\ outputDir \notin dirs
    /\ GenExitWith(TRUE)
    /\ UNCHANGED <<args, outputDir, dirs, fs, fs0, attempted, genFailed, genClock>>
    /\ UNCHANGED <<provVars, writerVars>>

NextDoc == Plan(args)[Len(attempted) + 1]
HasNextDoc == genPc = "generate" /\ Len(attempted) < Len(Plan(args))

\* The content a generate_* method hands to _write_file: its literal, or
\* what open("specs/<name>.md").read() returns.
ContentOf(d) == IF d \in SourceDocs THEN fs[SourcePath(d)].lines ELSE StaticContent(d)
CanRead(d) == d \in SourceDocs => fs[SourcePath(d)].exists

\* A generate_* method that returns: the content is written under a header.
Render ==
    /\ HasNextDoc
    /\ CanRead(NextDoc)
    /\ \E tick \in genClock..Len(TimestampSeq) :
          /\ genClock' = tick
          /\ fs' = [fs EXCEPT ![TargetPath(outputDir, NextDoc)] =
                        write_file(@, ContentOf(NextDoc), TimestampSeq[tick])]
    /\ attempted' = Append(attempted, NextDoc)
    /\ UNCHANGED <<args, outputDir, dirs, fs0, genPc, genFailed, genExit>>
    /\ UNCHANGED <<provVars, writerVars>>

\* open("specs/<name>.md") raises FileNotFoundError: generate_all and main()
\* catch nothing, the process ends.
RenderSourceMissing ==
    /\ HasNextDoc
    /\ ~CanRead(NextDoc)
    /\ attempted' = Append(attempted, NextDoc)
    /\ genFailed' = Append(genFailed, [doc |-> NextDoc, error |-> "FileNotFoundError"])
    /\ GenExitWith(TRUE)
    /\ UNCHANGED <<args, outputDir, dirs, fs, fs0, genClock>>
    /\ UNCHANGED <<provVars, writerVars>>

\* _write_file raises (open or write fails): the target stays as it was or
\* is left truncated, and the process ends.
RenderWriteFails ==
    /\ HasNextDoc
    /\ CanRead(NextDoc)
    /\ \E truncated \in BOOLEAN :
          fs' = [fs EXCEPT ![TargetPath(outputDir, NextDoc)] =
                    IF truncated THEN FileOf(<<>>) ELSE @]
    /\ attempted' = Append(attempted, NextDoc)
    /\ genFailed' = Append(genFailed, [doc |-> NextDoc, error |-> "IOFailure"])
    /\ GenExitWith(TRUE)
    /\ UNCHANGED <<args, outputDir, dirs, fs0, genClock>>
    /\ UNCHANGED <<provVars, writerVars>>

\* main() returns: every method it called has returned.
GenFinish ==
    /\ genPc = "generate"
    /\ Len(attempted) = Len(Plan(args))
    /\ GenExitWith(FALSE)
    /\ UNCHANGED <<args, outputDir, dirs, fs, fs0, attempted, genFailed, genClock>>
    /\ UNCHANGED <<provVars, writerVars>>

GenNext ==
    \/ Construct
    \/ ConstructFails
    \/ Render
    \/ RenderSourceMissing
    \/ RenderWriteFails
    \/ GenFinish

\* The command lines: --all, or any set of document flags.
Selections ==
    {[all |-> TRUE, flags |-> {}]} \cup {[all |-> FALSE, flags |-> F] : F \in SUBSET DocSet}

\* The file system before the run: the other directory does not exist yet;
\* ./specs holds some of the source files, as plain texts, as files a
\* previous run wrote, or as files a previous run wrote from an empty source
\* (the header and nothing else).
SourceShapes == {"plain", "generated", "header_only"}
InitialFs(present, shape) ==
    [p \in Paths |->
        IF \E d \in present : p = SourcePath(d)
        THEN LET d == CHOOSE d \in present : p = SourcePath(d)
             IN FileOf(CASE shape = "plain" -> SourceText(d)
                         [] shape = "generated" -> Metadata(OldTimestamp) \o SourceText(d)
                         [] shape = "header_only" -> Metadata(OldTimestamp))
        ELSE NoFile]

GenIdle ==
    /\ args = [all |-> FALSE, flags |-> {}]
    /\ outputDir = "specs"
    /\ dirs = {}
    /\ fs = [p \in {} |-> NoFile]
    /\ fs0 = fs
    /\ genPc = "main"
    /\ attempted = <<>>
    /\ genFailed = <<>>
    /\ genExit = -1
    /\ genClock = 1

GenInit ==
    /\ args \in Selections
    /\ outputDir \in Dirs
    /\ \E present \in SUBSET SourceDocs, shape \in SourceShapes :
          /\ present = {} => shape = "plain"
          /\ fs = InitialFs(present, shape)
          /\ dirs = IF present = {} THEN {} ELSE {"specs"}
    /\ fs0 = fs
    /\ genPc = "main"
    /\ attempted = <<>>
    /\ genFailed = <<>>
    /\ genExit = -1
    /\ genClock = 1

ProvInitAll == ProvInit /\ file = NoFile /\ WriterIdle /\ GenIdle

WriterInitAll == WriterInit /\ ProvInit /\ GenIdle

GenInitAll == GenInit /\ ProvInit /\ file = NoFile /\ WriterIdle

\* The generator: one run of the script on a file system.
GenSpec == GenInitAll /\ [][GenNext]_vars

\* The provisioner: invocations launched at any time against one backend.
ProvSpec == ProvInitAll /\ [][ProvNext]_vars

\* A launched invocation keeps running: its calls block until they return
\* or raise. Nothing obliges an operator to launch one.
ProvFairSpec == ProvSpec /\ \A p \in Procs : WF_vars(ProvStep(p))

\* The writer: calls of _write_file on one path, whatever it held before.
WriterSpec == WriterInitAll /\ [][WriterNext]_vars

(***************************************************************************)
(* Claims about the provisioner.                                           *)
(***************************************************************************)
Done(p) == pc[p] = "done"

\* No call of invocation p met an error other than "not found" and
\* "already exists".
NoFault(p) == \A i \in DOMAIN calls[p] : calls[p][i].resp \notin OtherErrors

\* The response invocation p got to its k-th request, "" when it made none.
Resp(p, k) == IF Len(calls[p]) >= k THEN calls[p][k].resp ELSE ""

\* p ran first and alone, then q ran second and alone, neither meeting a fault.
InSequence(p, q) ==
    /\ p # q /\ Done(p) /\ Done(q)
    /\ startSeq[p] = 0 /\ startSeq[q] = 1
    /\ ~overlap[p] /\ ~overlap[q]
    /\ NoFault(p) /\ NoFault(q)

\* C1: two invocations in sequence against a reachable backend that starts
\* with no table: the first reports Created, the second AlreadyExists, and
\* both exit with status 0.
C1_SequentialCreatedThenExists ==
    \A p, q \in Procs :
        InSequence(p, q) =>
            /\ outcome[p] = "Created" /\ exitCode[p] = 0
            /\ outcome[q] = "AlreadyExists" /\ exitCode[q] = 0

C1_Witness ==
    \E p, q \in Procs :
        /\ InSequence(p, q)
        /\ Len(calls[p]) = 3 /\ Len(calls[q]) = 2

\* p and q ran concurrently, both ended, and no invocation met a fault.
Concurrent(p, q) ==
    /\ p # q /\ Done(p) /\ Done(q)
    /\ overlap[p] /\ overlap[q]
    /\ \A r \in Procs : NoFault(r)

\* C2: concurrent invocations on a reachable backend that starts with no
\* table: exactly one create request succeeds in the backend, an invocation
\* whose create is rejected with "already exists" counts it as success, both
\* exit with status 0 and none reports a failure.
C2_ConcurrentConflictTolerated ==
    \A p, q \in Procs :
        Concurrent(p, q) =>
            /\ Cardinality({r \in Procs : Resp(r, 3) = "ok"}) = 1
            /\ createCount = 1
            /\ \A r \in {p, q} :
                  /\ exitCode[r] = 0
                  /\ outcome[r] \in {"Created", "AlreadyExists", "ResourceConflict"}
                  /\ Resp(r, 3) = "ResourceInUseException" => outcome[r] = "ResourceConflict"

C2_Witness ==
    \E p, q \in Procs :
        /\ Concurrent(p, q)
        /\ Resp(p, 3) = "ok"
        /\ Resp(q, 3) = "ResourceInUseException"
        /\ exitCode[q] = 0

\* No invocation is under way, at least one has run, and none met a fault.
Quiescent ==
    /\ \A p \in Procs : ~Running(p)
    /\ \E p \in Procs : Done(p)
    /\ \A p \in Procs : NoFault(p)

\* C3: every launched invocation terminates; once all have terminated on a
\* backend whose only errors are "not found" and "already exists", the backend
\* holds exactly the one configured table, created once; and a table, once
\* created, is never altered or re-created.
C3_ConvergesToOneTable ==
    /\ \A p \in Procs : (Running(p) ~> Done(p))
    /\ [](Quiescent => (tables = {Descriptor} /\ createCount = 1))
    /\ [][tables # {} => (tables' = tables /\ createCount' = createCount)]_vars

C3_Witness ==
    /\ Quiescent
    /\ \A p \in Procs : Done(p) /\ overlap[p]
    /\ tables = {Descriptor}
    /\ \E p \in Procs : outcome[p] = "AlreadyExists"

\* C4: when the liveness check fails, the invocation ends at once with
\* ServiceUnreachable and a non-zero status, having issued neither a describe
\* nor a create request; the step leaves the backend as it was.
C4_UnreachableFailsFast ==
    /\ [](\A p \in Procs :
            Resp(p, 1) \in OtherErrors =>
                /\ Done(p) /\ outcome[p] = "ServiceUnreachable" /\ exitCode[p] = 1
                /\ Len(calls[p]) = 1)
    /\ [][\A p \in Procs :
            (Resp(p, 1) = "" /\ Resp(p, 1)' \in OtherErrors) =>
                (tables' = tables /\ createCount' = createCount)]_vars

C4_Witness ==
    \E p, q \in Procs :
        /\ Resp(p, 1) \in OtherErrors /\ exitCode[p] = 1
        /\ outcome[q] = "Created"

\* C5: when the existence check fails with an error other than "not found",
\* the invocation ends with a failure and a non-zero status and issues no
\* create request.
C5_DescribeErrorNotSwallowed ==
    \A p \in Procs :
        Resp(p, 2) \in OtherErrors =>
            /\ Done(p) /\ exitCode[p] = 1
            /\ outcome[p] = "UnexpectedError"
            /\ Len(calls[p]) = 2

C5_Witness ==
    \E p \in Procs :
        /\ Resp(p, 2) \in OtherErrors /\ exitCode[p] = 1
        /\ tables = {}

\* C6: when the create request fails with an error other than "already
\* exists", the invocation ends with a failure and a non-zero status: the
\* error is not reported as success and the request is not issued again.
C6_CreateErrorTerminal ==
    \A p \in Procs :
        Resp(p, 3) \in OtherErrors =>
            /\ Done(p) /\ exitCode[p] = 1
            /\ outcome[p] \in {"CreationFailure", "UnexpectedError"}
            /\ Len(calls[p]) = 3
            /\ calls[p][3].req = "create_table"
            /\ calls[p][1].req # "create_table" /\ calls[p][2].req # "create_table"

C6_Witness ==
    \E p, q \in Procs :
        /\ p # q
        /\ Resp(p, 3) = "OtherClientError" /\ exitCode[p] = 1
        /\ Resp(q, 3) = "OtherException" /\ exitCode[q] = 1

\* C14: an invocation exits with status 0 only with the outcome Created,
\* AlreadyExists or the tolerated conflict, and then the table exists in the
\* backend; every failure outcome, and every call that met another error,
\* exits with a non-zero status.
SuccessOutcomes == {"Created", "AlreadyExists", "ResourceConflict"}
FailureOutcomes == {"ServiceUnreachable", "UnexpectedError", "CreationFailure"}

C14_ExitStatusMatchesOutcome ==
    \A p \in Procs :
        Done(p) =>
            /\ exitCode[p] \in {0, 1}
            /\ exitCode[p] = 0 <=> outcome[p] \in SuccessOutcomes
            /\ exitCode[p] = 1 <=> outcome[p] \in FailureOutcomes
            /\ exitCode[p] = 0 => \E t \in tables : t.TableName = "enterprise-data"
            /\ ~NoFault(p) => exitCode[p] = 1

C14_Witness ==
    \E p, q \in Procs :
        /\ exitCode[p] = 0 /\ outcome[p] = "ResourceConflict"
        /\ exitCode[q] = 1 /\ outcome[q] = "UnexpectedError"

\* C18: when the existence check finds the table, the invocation ends with
\* AlreadyExists and status 0 after that call, without a create request, and
\* the step leaves the backend's table as it was.
C18_FoundTableLeftAlone ==
    /\ [](\A p \in Procs :
            Resp(p, 2) = "ok" =>
                /\ Done(p) /\ outcome[p] = "AlreadyExists" /\ exitCode[p] = 0
                /\ Len(calls[p]) = 2
                /\ tables # {})
    /\ [][\A p \in Procs :
            (Resp(p, 2) = "" /\ Resp(p, 2)' = "ok") =>
                (tables' = tables /\ createCount' = createCount)]_vars

C18_Witness ==
    \E p \in Procs :
        /\ Resp(p, 2) = "ok" /\ outcome[p] = "AlreadyExists"
        /\ createCount = 1

\* The requests of one invocation, in the order main() issues them.
RequestOrder == <<"list_tables", "describe_table", "create_table">>

\* C19: in one invocation the list, describe and create requests are each
\* issued at most once, in that order; after the third call the invocation
\* has ended, and an invocation that has not ended can always take its next
\* step.
C19_NoRetry ==
    \A p \in Procs :
        /\ Len(calls[p]) <= 3
        /\ \A i \in DOMAIN calls[p] : calls[p][i].req = RequestOrder[i]
        /\ Len(calls[p]) = 3 => Done(p)
        /\ Done(p) => Len(calls[p]) >= 1
        /\ Running(p) => ENABLED ProvStep(p)

C19_Witness ==
    \E p, q \in Procs :
        /\ p # q /\ Done(p) /\ Done(q)
        /\ Len(calls[p]) = 3 /\ Resp(p, 3) = "OtherClientError"
        /\ Len(calls[q]) = 1

\* The table the descriptor asks for, as a describe is to return it.
ExpectedKeySchema ==
    << [AttributeName |-> "PK", KeyType |-> "HASH"],
       [AttributeName |-> "SK", KeyType |-> "RANGE"] >>
ExpectedIndexes ==
    << [ IndexName |-> "GSI1",
         KeySchema |-> << [AttributeName |-> "GSI1PK", KeyType |-> "HASH"],
                          [AttributeName |-> "GSI1SK", KeyType |-> "RANGE"] >>,
         Projection |-> [ProjectionType |-> "ALL"],
         ProvisionedThroughput |->
             [ReadCapacityUnits |-> 5, WriteCapacityUnits |-> 5] ] >>
IsFullTable(t) ==
    /\ t.TableName = "enterprise-data"
    /\ t.KeySchema = ExpectedKeySchema
    /\ \A i \in DOMAIN t.KeySchema :
          \E j \in DOMAIN t.AttributeDefinitions :
              /\ t.AttributeDefinitions[j].AttributeName = t.KeySchema[i].AttributeName
              /\ t.AttributeDefinitions[j].AttributeType = "S"
    /\ t.GlobalSecondaryIndexes = ExpectedIndexes
    /\ t.BillingMode = "PAY_PER_REQUEST"

\* C20: the table is created by one create request carrying the whole
\* descriptor: in every backend state the table is absent or present with
\* the descriptor's key schema, index and billing mode, never partly defined,
\* and after an invocation that exits with status 0 the table is there with
\* exactly that key schema.
C20_TableAbsentOrWhole ==
    /\ Cardinality(tables) <= 1
    /\ \A t \in tables : IsFullTable(t)
    /\ \A p \in Procs :
          /\ Cardinality({i \in DOMAIN calls[p] : calls[p][i].req = "create_table"}) <= 1
          /\ exitCode[p] = 0 => \E t \in tables : t.KeySchema = ExpectedKeySchema

C20_Witness ==
    /\ \E t \in tables : IsFullTable(t)
    /\ \E p \in Procs : exitCode[p] = 0 /\ outcome[p] = "Created"
    /\ \E p \in Procs : exitCode[p] = 0 /\ outcome[p] = "AlreadyExists"

(***************************************************************************)
(* Claims about the writer.                                                *)
(***************************************************************************)
\* The header block of the file format: the start marker, the Generated
\* line, the Generator line, the end marker, then one blank line.
HeaderBlock(stamp) ==
    << Line("---"),
       Line("Generated: " \o stamp),
       Line("Generator: Technical Specification Generator v1.0"),
       Line("---"),
       Line("") >>

HeaderLen == Len(HeaderBlock(OldTimestamp))

\* The text that follows the header block of a generated file.
AfterHeader(text) == SubSeq(text, HeaderLen + 1, Len(text))

\* A header (marker, Generated, Generator, marker) starts at line i of text.
HeaderAt(text, i) ==
    /\ i + 3 <= Len(text)
    /\ \E stamp \in Timestamps \cup {OldTimestamp} :
          \A k \in 1..4 : text[i + k - 1] = HeaderBlock(stamp)[k]

\* The number of header blocks in a text.
HeaderCount(text) == Cardinality({i \in DOMAIN text : HeaderAt(text, i)})

NonBlank(text) == ~StripIsEmpty(text)

\* C7: after a successful write the text following the header block is
\* exactly the body passed to that call, whatever the file held before.
C7_BodyIsLastBody ==
    lastResult = "ok" => AfterHeader(file.lines) = lastBody

\* C8: after a successful write the file contains exactly one header block,
\* whatever the file held before.
C8_ExactlyOneHeader ==
    lastResult = "ok" => HeaderCount(file.lines) = 1

\* C9: a write on a path where no file exists succeeds with the file equal
\* to the fresh header block followed by exactly the body.
C9_FirstWrite ==
    (lastResult = "ok" /\ ~lastPrior.exists) =>
        file = FileOf(HeaderBlock(lastNow) \o lastBody)

C9_Witness ==
    /\ lastResult = "ok" /\ ~lastPrior.exists
    /\ NonBlank(lastBody)
    /\ file.exists

\* The first line of the prior file is not the start marker, compared as it
\* stands (Exact) or with its surrounding whitespace trimmed (Trimmed).
FirstLineNotMarkerExact(f) ==
    f.exists /\ (Len(f.lines) = 0 \/ f.lines[1] # Line("---"))
FirstLineNotMarkerTrimmed(f) ==
    f.exists /\ (Len(f.lines) = 0 \/ Strip(f.lines[1]) # "---")

SameApartFromTimestamp(f, g) ==
    /\ f.exists = g.exists
    /\ Len(f.lines) = Len(g.lines)
    /\ \A i \in DOMAIN f.lines : i # 2 => f.lines[i] = g.lines[i]

\* C13: a successful write followed by a successful write of the same body
\* leaves the file as the first write left it, apart from the timestamp.
C13_WriteIdempotent ==
    [][(lastResult = "ok" /\ lastResult' = "ok" /\ lastBody' = lastBody) =>
          SameApartFromTimestamp(file', file)]_vars

\* The lines of the prior file, after line 0, that read as the marker: all of
\* them, and those within the first lines, as far as a header block reaches.
MarkerLines(text) == {j \in 2..Len(text) : Strip(text[j]) = "---"}
MarkerLinesInPrefix(text) == {j \in MarkerLines(text) : j <= HeaderLen}

\* What a successful write leaves when the old header ends at line j: the
\* fresh header, then what followed line j, or the body when that is blank.
ResultWithHeaderEndingAt(j) ==
    LET rest == SubSeq(lastPrior.lines, j + 1, Len(lastPrior.lines))
    IN FileOf(HeaderBlock(lastNow) \o (IF NonBlank(rest) THEN rest ELSE lastBody))

\* C17 (as stated): with the start marker as line 0, an end marker within
\* the first few lines ends the header; a marker line that occurs only
\* further down does not, and the whole file counts as body.
C17_EndMarkerOnlyInFirstLines ==
    (lastResult = "ok" /\ lastPrior.exists /\ Len(lastPrior.lines) > 0
                       /\ lastPrior.lines[1] = Line("---")) =>
        IF MarkerLinesInPrefix(lastPrior.lines) # {}
        THEN file = ResultWithHeaderEndingAt(MinOf(MarkerLinesInPrefix(lastPrior.lines)))
        ELSE file = FileOf(HeaderBlock(lastNow) \o lastBody)

\* C17 (amended): with the start marker as line 0, the end marker is looked
\* for in every later line: the first marker line, however far down the
\* file, ends the header and the effective body is everything after it; with
\* no later marker line the whole file counts as body.
C17_EndMarkerAnywhere ==
    (lastResult = "ok" /\ lastPrior.exists /\ Len(lastPrior.lines) > 0
                       /\ lastPrior.lines[1] = Line("---")) =>
        IF MarkerLines(lastPrior.lines) # {}
        THEN file = ResultWithHeaderEndingAt(MinOf(MarkerLines(lastPrior.lines)))
        ELSE file = FileOf(HeaderBlock(lastNow) \o lastBody)

C17_Witness ==
    /\ lastResult = "ok" /\ lastPrior.exists /\ Len(lastPrior.lines) > 0
    /\ lastPrior.lines[1] = Line("---")
    /\ MarkerLinesInPrefix(lastPrior.lines) = {}
    /\ MarkerLines(lastPrior.lines) # {}
    /\ NonBlank(lastBody)
    /\ file = ResultWithHeaderEndingAt(MinOf(MarkerLines(lastPrior.lines)))
    /\ file # FileOf(HeaderBlock(lastNow) \o lastBody)

(***************************************************************************)
(* Claims about the document generator                                     *)
(***************************************************************************)
GenDone == genPc = "done"
Constructed == outputDir \in dirs
FailedDocs == {genFailed[i].doc : i \in DOMAIN genFailed}

\* The file of document d in the output directory is a header block followed
\* by a body.
Written(d) ==
    LET f == fs[TargetPath(outputDir, d)]
    IN /\ f.exists
       /\ HeaderAt(f.lines, 1)
       /\ Len(f.lines) > HeaderLen
       /\ f.lines[HeaderLen] = Line("")
       /\ NonBlank(AfterHeader(f.lines))

\* C11: in a batch render a failure on one document does not abort the
\* rest: when the process has ended after a failure, every document of the
\* catalog has been attempted and every document other than the failing one
\* is written.
C11_FailureDoesNotAbortBatch ==
    (GenDone /\ args.all /\ Constructed /\ genFailed # <<>>) =>
        /\ attempted = Docs
        /\ Len(genFailed) = 1
        /\ \A d \in DocSet \ FailedDocs : Written(d)

\* The output directory held none of the documents before the run.
FreshOutputDir == \A d \in DocSet : ~fs0[TargetPath(outputDir, d)].exists
NoWriteError == \A i \in DOMAIN genFailed : genFailed[i].error # "IOFailure"

\* C12: with a fresh output directory and no write error, a complete batch
\* render leaves all eight documents in the output directory, each a header
\* followed by its body.
C12_BatchWritesEveryDocument ==
    (GenDone /\ args.all /\ Constructed /\ FreshOutputDir /\ NoWriteError) =>
        \A d \in DocSet : Written(d)

\* Every selected document was rendered, none raised.
RenderedAll == Constructed /\ attempted = Plan(args) /\ genFailed = <<>>

\* C15: the generator process ends with status 0 if every selected document
\* was rendered successfully, and with a non-zero status if the rendering
\* of any selected document failed.
C15_GeneratorExitStatus ==
    GenDone =>
        /\ RenderedAll => genExit = 0
        /\ genFailed # <<>> => genExit # 0
        /\ genExit = 0 => RenderedAll

\* A run in which two documents were written and the third raised.
C15_Witness ==
    /\ GenDone
    /\ Len(attempted) = 3
    /\ genFailed # <<>>
    /\ genExit = 1
    /\ Written(attempted[1])

\* C16: generate_all renders every document of the catalog, each exactly
\* once, in the fixed order authentication, authorization, monitoring,
\* deployment, disaster recovery, API, security, performance.
C16_BatchRendersCatalogInOrder ==
    (GenDone /\ args.all /\ Constructed) =>
        attempted =
            << "authentication", "authorization", "monitoring", "deployment",
               "disaster_recovery", "api", "security", "performance" >>

(***************************************************************************)
(* Further claims about the writer                                         *)
(***************************************************************************)
\* C21: a write on an existing file whose first line is the start marker
\* and none of whose later lines reads as the end marker (an unterminated
\* header) treats the whole file as body to be replaced: the result is the
\* fresh header followed by exactly the body.
C21_UnterminatedHeaderDiscarded ==
    (lastResult = "ok" /\ lastPrior.exists /\ Len(lastPrior.lines) > 0
                       /\ Strip(lastPrior.lines[1]) = "---"
                       /\ MarkerLines(lastPrior.lines) = {}) =>
        file = FileOf(HeaderBlock(lastNow) \o lastBody)

\* A start marker, then two or more lines with text and no marker.
C21_Witness ==
    /\ lastResult = "ok" /\ lastPrior.exists
    /\ Len(lastPrior.lines) > 2
    /\ lastPrior.lines[1] = Line("---")
    /\ MarkerLines(lastPrior.lines) = {}
    /\ NonBlank(SubSeq(lastPrior.lines, 2, Len(lastPrior.lines)))
    /\ NonBlank(lastBody)

\* C24: after every successful write, whatever the file held, the file
\* begins with the freshly computed header: start marker, Generated line
\* with the time of this call, Generator line, end marker, one blank line.
C24_FileBeginsWithFreshHeader ==
    lastResult = "ok" =>
        /\ file.exists
        /\ Len(file.lines) >= HeaderLen
        /\ SubSeq(file.lines, 1, HeaderLen) = HeaderBlock(lastNow)

\* A write over a file that carried an older header and a text.
C24_Witness ==
    /\ lastResult = "ok" /\ lastPrior.exists
    /\ HeaderAt(lastPrior.lines, 1)
    /\ lastPrior.lines[2] = Line("Generated: " \o OldTimestamp)
    /\ NonBlank(AfterHeader(lastPrior.lines))
    /\ file.lines[2] = Line("Generated: " \o lastNow)

\* The prior file starts with a well-formed header; what follows its end
\* marker.
WellFormedHeader(f) == f.exists /\ HeaderAt(f.lines, 1)
PostHeader(f) == SubSeq(f.lines, 5, Len(f.lines))
NonWhitespaceText(text) == SelectSeq(text, LAMBDA l : Strip(l) # "")

C27_BlankBodyReplaced ==
    (lastResult = "ok" /\ WellFormedHeader(lastPrior) /\ ~NonBlank(PostHeader(lastPrior))) =>
        file = FileOf(HeaderBlock(lastNow) \o lastBody)

\* A header followed by its blank line only, and a body with text.
C27_Witness ==
    /\ lastResult = "ok" /\ WellFormedHeader(lastPrior)
    /\ Len(PostHeader(lastPrior)) > 0
    /\ ~NonBlank(PostHeader(lastPrior))
    /\ NonBlank(lastBody)

(***************************************************************************)
(* Further claims about the document generator                             *)
(***************************************************************************)
\* C22: the body handed to the writer is a constant of the document name:
\* a step that renders document d needs no file to be there, and the body it
\* hands to the writer is the body a render of d hands to the writer in the
\* file system the step leaves.
C22_BodyIsConstantOfName ==
    [][\A d \in DocSet :
          attempted' = Append(attempted, d) =>
              /\ CanRead(d)
              /\ ContentOf(d)' = ContentOf(d)]_vars

\* C23: the target paths of the documents are distinct, and a step of the
\* generator changes no file other than the target path of the document it
\* is rendering.
C23_RenderWritesOwnPathOnly ==
    [][/\ \A d1, d2 \in DocSet :
             d1 # d2 => TargetPath(outputDir, d1) # TargetPath(outputDir, d2)
       /\ \A p \in Paths :
             fs'[p] # fs[p] => (HasNextDoc /\ p = TargetPath(outputDir, NextDoc))]_vars

\* Two documents were rendered next to source files, which are as they were.
C23_Witness ==
    /\ Len(attempted) >= 2 /\ genFailed = <<>>
    /\ Written(attempted[1]) /\ Written(attempted[2])
    /\ fs[TargetPath(outputDir, attempted[1])] # fs[TargetPath(outputDir, attempted[2])]
    /\ \E d \in SourceDocs :
          /\ fs0[SourcePath(d)].exists
          /\ d \notin {attempted[i] : i \in DOMAIN attempted}
          /\ fs[SourcePath(d)] = fs0[SourcePath(d)]

\* The output directory was there before the run.
DirExistedBefore == \E p \in Paths : p[1] = outputDir /\ fs0[p].exists

\* C25: rendering into an output directory that does not exist yet creates
\* the directory and writes the file of every selected document without
\* error.
C25_MissingOutputDirCreated ==
    (GenDone /\ ~DirExistedBefore /\ Constructed /\ NoWriteError) =>
        /\ genExit = 0
        /\ \A i \in DOMAIN Plan(args) : Written(Plan(args)[i])

\* C28: with ./specs as the output directory, a document read from
\* specs/<name>.md and written to the same file, the file beginning with a
\* generator header before the run, has exactly one header block after the
\* run.
C28_SelfSourcedKeepsOneHeader ==
    \A d \in SourceDocs :
        ( /\ outputDir = "specs"
          /\ \E i \in DOMAIN attempted : attempted[i] = d
          /\ d \notin FailedDocs
          /\ fs0[SourcePath(d)].exists
          /\ HeaderAt(fs0[SourcePath(d)].lines, 1) ) =>
            HeaderCount(fs[TargetPath(outputDir, d)].lines) = 1

====
